---- MODULE Spec2Model ----
(***************************************************************************)
(* Model of the priority scheduling engine of ai_service/main.py:          *)
(*   calculate_priority_score, allocate_task_to_slot, optimize_schedule.   *)
(*                                                                         *)
(* Representation.                                                         *)
(*  - A datetime on or around the target date is the integer number of     *)
(*    seconds since the target date's midnight (negative = previous day).  *)
(*  - A slot's "HH:MM" string is the pair <<HH, MM>>.                       *)
(*  - estimated_hours is held as the duration in seconds it denotes        *)
(*    (timedelta(hours=h)); the values used are whole seconds.             *)
(*  - priority_score is held in units of 1/10000 (the code rounds to 4     *)
(*    decimals and every factor is a multiple of 0.005).                   *)
(***************************************************************************)
EXTENDS Integers, Sequences, FiniteSets, TLC

VARIABLES
    \* -- calls of allocate_task_to_slot on one list
    slot_list,      \* the list free_slots handed to the calls
    call_task,      \* the task of the last call (None before the first)
    returned,       \* the value the last call returned
    pre_slots,      \* history: the list as it stood before the last call
    orig_slots,     \* history: the list as it stood before the first call
    consumed,       \* history: per slot, the sum of the durations allocated from it
    ncalls,         \* history: number of calls made on this list
    \* -- calls of calculate_priority_score
    score_args,     \* the arguments (task, now, target_date) of the call
    score           \* the value returned (None before the call)

allocVars == <<slot_list, call_task, returned, pre_slots, orig_slots, consumed, ncalls>>

scoreVars == <<score_args, score>>

VARIABLES
    \* -- the store
    documents,          \* tasks collection: the user's task documents, in the order list_documents returns them
    schedules,          \* schedules collection: the documents for the user and date (none or one)
    \* -- calls of optimize_schedule, one entry per call
    pc,                 \* position of the call in the handler
    tasks,              \* tasks
    free_slots,         \* free_slots
    now_read,           \* now, as read from the clock before scoring (None until then)
    scored_tasks,       \* scored_tasks, after the sort
    pos,                \* index into scored_tasks of the task the loop offers next
    optimized_schedule, \* optimized_schedule
    response,           \* what the call answered (None while it runs)
    \* -- history
    written,            \* per call, the assignments it has written to the store, in order
    last_write,         \* per task id, the call and assignment of the last successful write
    failed              \* per call, the length of optimized_schedule when a write failed (0: none failed)

storeVars == <<documents, schedules>>

callVars == <<pc, tasks, free_slots, now_read, scored_tasks, pos, optimized_schedule, response>>

histVars == <<written, last_write, failed>>

optVars == <<storeVars, callVars, histVars>>

VARIABLES
    \* -- the task operations get_task, update_task, delete_task, update_task_status
    task_docs,      \* tasks collection by document id: the document, or None once deleted
    op_response,    \* the last request and its answer, with the document as stored before it (None before the first)
    nops            \* number of requests answered

opsVars == <<task_docs, op_response, nops>>

vars == <<allocVars, scoreVars, optVars, opsVars>>

\* Python's None (a record, so that it compares with the dicts it stands in for)
None == [ none |-> TRUE ]

----------------------------------------------------------------------------
(* Bounds *)

MaxSlots == 2
MaxCalls == 3
MaxTasks == 3
MaxRacingTasks == 2
MaxDayTasks == 2
MaxRequests == 2
MaxRepeatTasks == 2

(* Units *)

SecPerMin == 60
SecPerHour == 3600
SecPerDay == 86400

(* Inputs *)

\* "HH:MM" strings a stored slot may carry
TimeStrings == { <<8, 0>>, <<9, 0>>, <<9, 30>>, <<22, 0>> }

\* estimated_hours values (in seconds): -1h, 0, 0.025h, 0.5h, 1h
EstimatedHours == { 0 - 3600, 0, 90, 1800, 3600 }

\* stored priority values: the schema's integer attribute has no range
StoredPriorities == { 0 - 1, 0, 1, 3, 5, 10, 11 }

Categories == { "academic", "work", "personal", "" }

EnergyLevels == { "high", "medium", "low", "none" }

\* the clock: 07:00 on the target date
Nows == { 7 * 3600 }

\* deadline - now, in seconds: past, 1h, 1h+1s, 6h, 24h, 48h, 168h, 168h+1s
DeadlineDeltas == { 0 - 3600, 3600, 3601, 21600, 86400, 172800, 604800, 604801 }

\* target_date.hour
TargetHours == { 0, 8, 14 }

Slots == [ start_time : TimeStrings, end_time : TimeStrings ]

SlotLists == UNION { [ 1..n -> Slots ] : n \in 1..MaxSlots }

----------------------------------------------------------------------------
(* Time conversions *)

\* target_date.replace(hour=int(parts[0]), minute=int(parts[1]), second=0, microsecond=0)
ParseTime(s) == s[1] * SecPerHour + s[2] * SecPerMin

\* datetime.strftime('%H:%M'): hour and minute of the wall clock; the date and the seconds are dropped
Strftime(t) == << (t % SecPerDay) \div SecPerHour, ((t % SecPerDay) % SecPerHour) \div SecPerMin >>

\* slot_duration = (slot_end - slot_start).total_seconds() / 3600, kept in seconds
SlotDuration(slot) == ParseTime(slot.end_time) - ParseTime(slot.start_time)

----------------------------------------------------------------------------
(* calculate_priority_score.  Factor values are in hundredths, weights in   *)
(* percent, so a weighted factor and the total are in units of 1/10000.     *)

\* hours_until_deadline = max(0, (deadline - now).total_seconds() / 3600), kept in seconds
HoursUntilDeadline(deadline, now) == IF deadline - now > 0 THEN deadline - now ELSE 0

\* faulty variant: the values of the first two tiers exchanged
UrgencyScore_swapped(h) ==
    IF h <= 1 * SecPerHour THEN 90
    ELSE IF h <= 6 * SecPerHour THEN 100
    ELSE IF h <= 24 * SecPerHour THEN 80
    ELSE IF h <= 48 * SecPerHour THEN 60
    ELSE IF h <= 168 * SecPerHour THEN 40
    ELSE 20

\* the if/elif ladder over hours_until_deadline
UrgencyScore(h) ==
    IF h <= 1 * SecPerHour THEN 100
    ELSE IF h <= 6 * SecPerHour THEN 90
    ELSE IF h <= 24 * SecPerHour THEN 80
    ELSE IF h <= 48 * SecPerHour THEN 60
    ELSE IF h <= 168 * SecPerHour THEN 40
    ELSE 20

\* faulty variant: the urgency weighted 0.05
DeadlineScore_light(t, now) == UrgencyScore(HoursUntilDeadline(t.deadline, now)) * 5

\* deadline_score = urgency_score * 0.35
DeadlineScore(t, now) == UrgencyScore(HoursUntilDeadline(t.deadline, now)) * 35

\* faulty variant: the priority used as the importance, (priority / 5.0) * 0.25
ImportanceScore_direct(t) == (t.priority * 20) * 25

\* importance_score = (6 - priority_value) / 5.0 * 0.25
ImportanceScore(t) == ((6 - t.priority) * 20) * 25

\* faulty variant: a category outside the table counts 0
CategoryScore_noDefault(t) ==
    (CASE t.category = "academic" -> 100
       [] t.category = "work"     -> 80
       [] t.category = "personal" -> 60
       [] OTHER                   -> 0) * 15

\* category_scores.get(task.get('category', ''), 0.5) * 0.15
CategoryScore(t) ==
    (CASE t.category = "academic" -> 100
       [] t.category = "work"     -> 80
       [] t.category = "personal" -> 60
       [] OTHER                   -> 50) * 15

\* the bucket derived from target_date.hour
CurrentEnergy(hour) ==
    IF 6 <= hour /\ hour < 12 THEN "high"
    ELSE IF 12 <= hour /\ hour < 18 THEN "medium"
    ELSE "low"

\* energy_scores.get(current_energy, {}).get(task.get('energy_level', 'medium'), 0.5)
EnergyMatch(current, level) ==
    CASE current = "high"   /\ level = "high"   -> 100
      [] current = "high"   /\ level = "medium" -> 70
      [] current = "high"   /\ level = "low"    -> 30
      [] current = "medium" /\ level = "high"   -> 70
      [] current = "medium" /\ level = "medium" -> 100
      [] current = "medium" /\ level = "low"    -> 50
      [] current = "low"    /\ level = "high"   -> 30
      [] current = "low"    /\ level = "medium" -> 50
      [] current = "low"    /\ level = "low"    -> 100
      [] OTHER                                  -> 50

\* energy_score = energy_match * 0.15
EnergyScore(t, hour) == EnergyMatch(CurrentEnergy(hour), t.energy_level) * 15

\* faulty variant: the preference term read from the stored state, higher once a task is scheduled
UserPreferenceScore_learned ==
    IF \E k \in 1..Len(documents) : documents[k].scheduled # None THEN 60 * 10 ELSE 50 * 10

\* user_preference_score = 0.5 * 0.10
UserPreferenceScore == 50 * 10

\* round(total_score, 4); target_date enters only through its hour
calculate_priority_score(t, now, hour) ==
    DeadlineScore(t, now) + ImportanceScore(t) + CategoryScore(t)
        + EnergyScore(t, hour) + UserPreferenceScore

\* the ranking key of prioritize_tasks in the test suite: lower sorts first
test_priority_score(t, now) ==
    t.priority * 10
      + (IF t.deadline - now < SecPerDay THEN 0 - 50
         ELSE IF t.deadline - now < 3 * SecPerDay THEN 0 - 30
         ELSE IF t.deadline - now < 7 * SecPerDay THEN 0 - 10
         ELSE 0)
      + (CASE t.energy_level = "high" -> 0 - 5
           [] t.energy_level = "low"  -> 5
           [] OTHER                   -> 0)

----------------------------------------------------------------------------
(* allocate_task_to_slot *)

\* faulty variant: the comparison the wrong way round
Fits_flipped(slot, est) == SlotDuration(slot) <= est

\* if slot_duration >= estimated_hours
Fits(slot, est) == SlotDuration(slot) >= est

\* faulty variant: the list scanned from its end
ChosenSlot_last(est, slots) ==
    IF \E i \in 1..Len(slots) : Fits(slots[i], est)
    THEN CHOOSE i \in 1..Len(slots) :
            /\ Fits(slots[i], est)
            /\ \A j \in (i + 1)..Len(slots) : ~Fits(slots[j], est)
    ELSE 0

\* for slot in free_slots: ... the first slot that passes the test (0: the loop falls through)
ChosenSlot(est, slots) ==
    IF \E i \in 1..Len(slots) : Fits(slots[i], est)
    THEN CHOOSE i \in 1..Len(slots) :
            /\ Fits(slots[i], est)
            /\ \A j \in 1..(i - 1) : ~Fits(slots[j], est)
    ELSE 0

\* slot['start_time'] = (slot_start + timedelta(hours=estimated_hours)).strftime('%H:%M')
NewStartTime(slot, est) == Strftime(ParseTime(slot.start_time) + est)

\* faulty variant: the end read back from the slot's new 'HH:MM' start_time
ScheduledEnd_fromSlot(slot, est) == ParseTime(NewStartTime(slot, est))

\* 'scheduled_end': (slot_start + timedelta(hours=estimated_hours)).isoformat()
ScheduledEnd(slot, est) == ParseTime(slot.start_time) + est

\* the dict returned for the chosen slot
Assignment(t, slot) ==
    [ task_id         |-> t.id,
      scheduled_start |-> ParseTime(slot.start_time),
      scheduled_end   |-> ScheduledEnd(slot, t.estimated_hours),
      duration_hours  |-> t.estimated_hours,
      priority_score  |-> t.priority_score ]

\* the return value of allocate_task_to_slot
AllocResult(t, slots) ==
    LET i == ChosenSlot(t.estimated_hours, slots)
    IN  IF i = 0 THEN None ELSE Assignment(t, slots[i])

\* the list free_slots after the call (mutated in place)
AllocSlots(t, slots) ==
    LET i == ChosenSlot(t.estimated_hours, slots)
    IN  IF i = 0 THEN slots
        ELSE [ slots EXCEPT ![i].start_time = NewStartTime(slots[i], t.estimated_hours) ]

----------------------------------------------------------------------------
(* optimize_schedule *)

\* the concurrent calls of the handler for one user and date
Calls == { 1, 2 }

\* '$id' of the document at each position of the tasks collection
TaskIds == << "t1", "t2", "t3", "t4" >>

\* the documents a task collection may hold (estimated_hours is absent from one)
TaskProfiles ==
    { [ priority |-> 3, deadline |-> 9 * 3600, category |-> "academic", energy_level |-> "medium",
        status |-> "todo", estimated_hours |-> 3600 ],
      [ priority |-> 2, deadline |-> 20 * 3600, category |-> "academic", energy_level |-> "medium",
        status |-> "todo", estimated_hours |-> 1800 ],
      [ priority |-> 3, deadline |-> 20 * 3600, category |-> "personal", energy_level |-> "low",
        status |-> "in_progress" ],
      [ priority |-> 1, deadline |-> 9 * 3600, category |-> "work", energy_level |-> "high",
        status |-> "todo", estimated_hours |-> 0 - 3600 ],
      [ priority |-> 3, deadline |-> 20 * 3600, category |-> "work", energy_level |-> "high",
        status |-> "todo", estimated_hours |-> 90 ],
      [ priority |-> 2, deadline |-> 20 * 3600, category |-> "academic", energy_level |-> "medium",
        status |-> "todo", estimated_hours |-> 15 * 3600 ],
      [ priority |-> 1, deadline |-> 9 * 3600, category |-> "academic", energy_level |-> "high",
        status |-> "completed", estimated_hours |-> 3600 ] }

\* the schedules collection for the user and date: no document, or one with these free_slots
ScheduleChoices ==
    { <<>>,
      << [ free_slots |-> << [ start_time |-> <<9, 0>>, end_time |-> <<9, 30>> ],
                             [ start_time |-> <<8, 0>>, end_time |-> <<9, 30>> ] >> ] >>,
      << [ free_slots |-> << [ start_time |-> <<8, 0>>, end_time |-> <<9, 0>> ] >> ] >> }

\* datetime.now() as the calls may read it: 07:00 and 08:30 on the target date
OptimizeNows == { 7 * 3600, 8 * 3600 + 1800 }

\* datetime.fromisoformat(date).hour for the date-only parameter
TargetDateHour == 0

\* doc.get('estimated_hours', 0)
GetEstimatedHours(doc) ==
    IF "estimated_hours" \in DOMAIN doc THEN doc.estimated_hours ELSE 0

\* the deadline string as create_task stored it, deadline.isoformat(): "aware" when it carries a UTC offset
GetDeadlineTz(doc) ==
    IF "deadline_tz" \in DOMAIN doc THEN doc.deadline_tz ELSE "naive"

\* document_to_task (the fields the engine reads)
document_to_task(doc) ==
    [ id              |-> doc.id,
      category        |-> doc.category,
      priority        |-> doc.priority,
      deadline        |-> doc.deadline,
      deadline_tz     |-> GetDeadlineTz(doc),
      estimated_hours |-> GetEstimatedHours(doc),
      energy_level    |-> doc.energy_level,
      status          |-> doc.status,
      scheduled       |-> doc.scheduled ]

\* faulty variant: no deadline queries, tasks of every date are fetched
DeadlineOnDate_any(doc) == TRUE

\* Query.greater_than_equal('deadline', date T00:00:00), Query.less_than_equal('deadline', date T23:59:59)
DeadlineOnDate(doc) ==
    /\ doc.deadline >= 0
    /\ doc.deadline <= SecPerDay - 1

\* faulty variant: the status query left out
MatchesQuery_noStatus(doc) == DeadlineOnDate(doc)

\* the queries of the tasks list_documents: status != 'completed', deadline within the date
MatchesQuery(doc) ==
    /\ doc.status # "completed"
    /\ DeadlineOnDate(doc)

RECURSIVE MapTasks(_)
\* tasks = [document_to_task(doc) for doc in tasks_result.get('documents', [])]
MapTasks(docs) ==
    IF docs = <<>> THEN <<>>
    ELSE (IF MatchesQuery(Head(docs)) THEN << document_to_task(Head(docs)) >> ELSE <<>>)
            \o MapTasks(Tail(docs))

\* if not free_slots: free_slots = [{"start_time": "08:00", "end_time": "22:00"}]
DefaultSlots == << [ start_time |-> <<8, 0>>, end_time |-> <<22, 0>> ] >>

\* faulty variant: what a call has consumed is written back, the next read returns the consumed list
StoredFreeSlots_consumed(schedule_docs) ==
    IF \E q \in DOMAIN pos : pos[q] >= 1
    THEN free_slots[CHOOSE q \in DOMAIN pos : pos[q] >= 1]
    ELSE IF schedule_docs = <<>> THEN <<>>
    ELSE IF "free_slots" \in DOMAIN schedule_docs[1] THEN schedule_docs[1].free_slots
    ELSE <<>>

\* json.loads(schedule.get('free_slots', '[]')) of the first schedule document, [] when there is none
StoredFreeSlots(schedule_docs) ==
    IF schedule_docs = <<>> THEN <<>>
    ELSE IF "free_slots" \in DOMAIN schedule_docs[1] THEN schedule_docs[1].free_slots
    ELSE <<>>

\* faulty variant: the default substituted only when there is no schedule document
ReadFreeSlots_noDocOnly(schedule_docs) ==
    IF schedule_docs = <<>> THEN DefaultSlots ELSE StoredFreeSlots(schedule_docs)

\* free_slots as read from the schedules collection
ReadFreeSlots(schedule_docs) ==
    LET stored == StoredFreeSlots(schedule_docs)
    IN  IF stored = <<>> THEN DefaultSlots ELSE stored

\* faulty variant: the hour of the clock passed in place of the hour of the target date
Scored_clockHour(t, now) ==
    [ id              |-> t.id,
      category        |-> t.category,
      priority        |-> t.priority,
      deadline        |-> t.deadline,
      deadline_tz     |-> t.deadline_tz,
      estimated_hours |-> t.estimated_hours,
      energy_level    |-> t.energy_level,
      status          |-> t.status,
      scheduled       |-> t.scheduled,
      priority_score  |-> calculate_priority_score(t, now, now \div SecPerHour) ]

\* {**task, 'priority_score': score}
Scored(t, now) ==
    [ id              |-> t.id,
      category        |-> t.category,
      priority        |-> t.priority,
      deadline        |-> t.deadline,
      deadline_tz     |-> t.deadline_tz,
      estimated_hours |-> t.estimated_hours,
      energy_level    |-> t.energy_level,
      status          |-> t.status,
      scheduled       |-> t.scheduled,
      priority_score  |-> calculate_priority_score(t, now, TargetDateHour) ]

\* faulty variant: x goes in front of the elements with its own score
InsertByScore_unstable(x, sorted) ==
    LET k == Cardinality({ j \in 1..Len(sorted) : sorted[j].priority_score > x.priority_score })
    IN  SubSeq(sorted, 1, k) \o << x >> \o SubSeq(sorted, k + 1, Len(sorted))

\* list.sort(key=priority_score, reverse=True) is stable: x goes behind every element that does not score lower
InsertByScore(x, sorted) ==
    LET k == Cardinality({ j \in 1..Len(sorted) : sorted[j].priority_score >= x.priority_score })
    IN  SubSeq(sorted, 1, k) \o << x >> \o SubSeq(sorted, k + 1, Len(sorted))

RECURSIVE SortByScore(_)
\* scored_tasks.sort(key=lambda x: x['priority_score'], reverse=True)
SortByScore(seq) ==
    IF seq = <<>> THEN <<>>
    ELSE InsertByScore(seq[Len(seq)], SortByScore(SubSeq(seq, 1, Len(seq) - 1)))

\* (deadline - now) raises TypeError for an offset-aware deadline: now = datetime.now() is naive
ScoreRaises(t) == t.deadline_tz = "aware"

\* scored_tasks as the scoring loop leaves it when a task raises: the tasks before the first that raises
ScoredBeforeRaise(ts, now) ==
    LET k == CHOOSE i \in 1..Len(ts) : ScoreRaises(ts[i]) /\ \A j \in 1..(i - 1) : ~ScoreRaises(ts[j])
    IN  [ i \in 1..(k - 1) |-> Scored(ts[i], now) ]

\* faulty variant: the sort left out, the tasks stay in fetch order
ScoreAndSort_unsorted(ts, now) == [ k \in 1..Len(ts) |-> Scored(ts[k], now) ]

\* the scoring loop followed by the sort
ScoreAndSort(ts, now) == SortByScore([ k \in 1..Len(ts) |-> Scored(ts[k], now) ])

\* faulty variant: the schedule fields written only while they are still unset
UpdateDocument_ifUnset(doc, a) ==
    IF doc.scheduled = None
    THEN [ doc EXCEPT !.scheduled = [ scheduled_start |-> a.scheduled_start,
                                      scheduled_end   |-> a.scheduled_end ] ]
    ELSE doc

\* databases.update_document(document_id, data={'scheduled_start': ..., 'scheduled_end': ...})
UpdateDocument(doc, a) ==
    [ doc EXCEPT !.scheduled = [ scheduled_start |-> a.scheduled_start,
                                 scheduled_end   |-> a.scheduled_end ] ]

\* except Exception as e: raise HTTPException(status_code=500, detail=str(e))
AfterException == "error"

\* faulty variant: a task that cannot be scored is skipped, the handler goes on
AfterScoreException_skipped == "loop"

\* calculate_priority_score raises inside the scoring loop: only the handler's except catches it
AfterScoreException == AfterException

\* faulty variant: the failure of one write swallowed, the loop goes on
AfterUpdateException_swallowed == "loop"

\* update_document raises inside the loop: nothing catches it before the handler's except
AfterUpdateException == AfterException

\* the answer of a call that raised
ErrorResponse == [ status_code |-> 500 ]

\* faulty variant: total_tasks counts every stored task, allocated_tasks every offered task
OkResponse_counts(p) ==
    [ status_code     |-> 200,
      optimized_tasks |-> optimized_schedule[p],
      total_tasks     |-> Len(documents),
      allocated_tasks |-> Len(scored_tasks[p]) ]

\* the dict returned at the end of the handler
OkResponse(p) ==
    [ status_code     |-> 200,
      optimized_tasks |-> optimized_schedule[p],
      total_tasks     |-> Len(scored_tasks[p]),
      allocated_tasks |-> Len(optimized_schedule[p]) ]

\* the task operations' variables while no task operation is modelled
OpsIdle ==
    /\ task_docs = <<>>
    /\ op_response = None
    /\ nops = 0

\* the state when the given calls arrive, over a tasks collection of at most n_max documents
\* drawn from profiles and a schedules collection drawn from choices
OptInitFrom(calls, n_max, profiles, choices) ==
    /\ \E n \in 1..n_max : \E f \in [ 1..n -> profiles ] :
          documents = [ k \in 1..n |->
                          [ x \in DOMAIN f[k] \cup { "id", "scheduled" } |->
                              IF x = "id" THEN TaskIds[k]
                              ELSE IF x = "scheduled"
                                   THEN (IF "scheduled" \in DOMAIN f[k] THEN f[k].scheduled ELSE None)
                              ELSE f[k][x] ] ]
    /\ schedules \in choices
    /\ pc = [ p \in calls |-> "start" ]
    /\ tasks = [ p \in calls |-> <<>> ]
    /\ free_slots = [ p \in calls |-> <<>> ]
    /\ now_read = [ p \in calls |-> None ]
    /\ scored_tasks = [ p \in calls |-> <<>> ]
    /\ pos = [ p \in calls |-> 0 ]
    /\ optimized_schedule = [ p \in calls |-> <<>> ]
    /\ response = [ p \in calls |-> None ]
    /\ written = [ p \in calls |-> <<>> ]
    /\ last_write = [ k \in 1..Len(documents) |-> None ]
    /\ failed = [ p \in calls |-> 0 ]
    /\ slot_list = <<>>
    /\ orig_slots = <<>>
    /\ pre_slots = <<>>
    /\ call_task = None
    /\ returned = None
    /\ consumed = <<>>
    /\ ncalls = 0
    /\ score_args = None
    /\ score = None
    /\ OpsIdle

\* the state when the given calls arrive, over a tasks collection of at most n_max documents
OptInit(calls, n_max) == OptInitFrom(calls, n_max, TaskProfiles, ScheduleChoices)

\* tasks_result = databases.list_documents(TASKS_COLLECTION, ...)
ListTasks(p) ==
    /\ pc[p] = "start"
    /\ tasks' = [ tasks EXCEPT ![p] = MapTasks(documents) ]
    /\ pc' = [ pc EXCEPT ![p] = "schedule" ]
    /\ UNCHANGED <<storeVars, free_slots, now_read, scored_tasks, pos, optimized_schedule, response, histVars, allocVars, scoreVars, opsVars>>

\* schedule_result = databases.list_documents(SCHEDULES_COLLECTION, ...), then scoring and sort
ListSchedule(p, now) ==
    /\ pc[p] = "schedule"
    /\ \A k \in 1..Len(tasks[p]) : ~ScoreRaises(tasks[p][k])
    /\ free_slots' = [ free_slots EXCEPT ![p] = ReadFreeSlots(schedules) ]
    /\ now_read' = [ now_read EXCEPT ![p] = [ t |-> now ] ]
    /\ scored_tasks' = [ scored_tasks EXCEPT ![p] = ScoreAndSort(tasks[p], now) ]
    /\ pos' = [ pos EXCEPT ![p] = 1 ]
    /\ pc' = [ pc EXCEPT ![p] = "loop" ]
    /\ UNCHANGED <<storeVars, tasks, optimized_schedule, response, histVars, allocVars, scoreVars, opsVars>>

\* the schedule is read, then calculate_priority_score raises for one of the tasks
ScoringFails(p, now) ==
    /\ pc[p] = "schedule"
    /\ \E k \in 1..Len(tasks[p]) : ScoreRaises(tasks[p][k])
    /\ free_slots' = [ free_slots EXCEPT ![p] = ReadFreeSlots(schedules) ]
    /\ now_read' = [ now_read EXCEPT ![p] = [ t |-> now ] ]
    /\ scored_tasks' = [ scored_tasks EXCEPT ![p] = ScoredBeforeRaise(tasks[p], now) ]
    /\ pc' = [ pc EXCEPT ![p] = AfterScoreException ]
    /\ pos' = [ pos EXCEPT ![p] = IF AfterScoreException = "error" THEN @ ELSE 1 ]
    /\ response' = [ response EXCEPT ![p] = IF AfterScoreException = "error" THEN ErrorResponse ELSE @ ]
    /\ UNCHANGED <<storeVars, tasks, optimized_schedule, histVars, allocVars, scoreVars, opsVars>>

\* either list_documents raises
ReadFails(p) ==
    /\ pc[p] \in { "start", "schedule" }
    /\ pc' = [ pc EXCEPT ![p] = AfterException ]
    /\ response' = [ response EXCEPT ![p] = ErrorResponse ]
    /\ UNCHANGED <<storeVars, tasks, free_slots, now_read, scored_tasks, pos, optimized_schedule, histVars, allocVars, scoreVars, opsVars>>

\* index in the tasks collection of the document with this '$id'
DocIndex(id) == CHOOSE k \in 1..Len(documents) : documents[k].id = id

\* faulty variant: the loop is left at the first task that fits no slot
NextAfterNoSlot_break(p) == Len(scored_tasks[p]) + 1

\* if allocated: has no else branch, the for loop moves on to the next task
NextAfterNoSlot(p) == pos[p] + 1

\* loop body, allocate_task_to_slot returns None
AllocateNone(p) ==
    /\ pc[p] = "loop"
    /\ pos[p] <= Len(scored_tasks[p])
    /\ AllocResult(scored_tasks[p][pos[p]], free_slots[p]) = None
    /\ pos' = [ pos EXCEPT ![p] = NextAfterNoSlot(p) ]
    /\ UNCHANGED <<storeVars, pc, tasks, free_slots, now_read, scored_tasks, optimized_schedule, response, histVars, allocVars, scoreVars, opsVars>>

\* loop body, an assignment is returned and update_document succeeds
AllocateAndUpdate(p) ==
    /\ pc[p] = "loop"
    /\ pos[p] <= Len(scored_tasks[p])
    /\ LET t == scored_tasks[p][pos[p]]
           a == AllocResult(t, free_slots[p])
           k == DocIndex(t.id)
       IN  /\ a # None
           /\ free_slots' = [ free_slots EXCEPT ![p] = AllocSlots(t, free_slots[p]) ]
           /\ optimized_schedule' = [ optimized_schedule EXCEPT ![p] = Append(@, a) ]
           /\ documents' = [ documents EXCEPT ![k] = UpdateDocument(@, a) ]
           /\ written' = [ written EXCEPT ![p] = Append(@, a) ]
           /\ last_write' = [ last_write EXCEPT ![k] = [ call |-> p, assignment |-> a ] ]
    /\ pos' = [ pos EXCEPT ![p] = @ + 1 ]
    /\ UNCHANGED <<schedules, pc, tasks, now_read, scored_tasks, response, failed, allocVars, scoreVars, opsVars>>

\* loop body, an assignment is returned and update_document raises
AllocateUpdateFails(p) ==
    /\ pc[p] = "loop"
    /\ pos[p] <= Len(scored_tasks[p])
    /\ LET t == scored_tasks[p][pos[p]]
           a == AllocResult(t, free_slots[p])
       IN  /\ a # None
           /\ free_slots' = [ free_slots EXCEPT ![p] = AllocSlots(t, free_slots[p]) ]
           /\ optimized_schedule' = [ optimized_schedule EXCEPT ![p] = Append(@, a) ]
           /\ failed' = [ failed EXCEPT ![p] = Len(optimized_schedule[p]) + 1 ]
    /\ pc' = [ pc EXCEPT ![p] = AfterUpdateException ]
    /\ pos' = [ pos EXCEPT ![p] = @ + 1 ]
    /\ response' = [ response EXCEPT ![p] = IF AfterUpdateException = "error" THEN ErrorResponse ELSE @ ]
    /\ UNCHANGED <<storeVars, tasks, now_read, scored_tasks, written, last_write, allocVars, scoreVars, opsVars>>

\* the loop is exhausted: return {...}
Return(p) ==
    /\ pc[p] = "loop"
    /\ pos[p] > Len(scored_tasks[p])
    /\ pc' = [ pc EXCEPT ![p] = "done" ]
    /\ response' = [ response EXCEPT ![p] = OkResponse(p) ]
    /\ UNCHANGED <<storeVars, tasks, free_slots, now_read, scored_tasks, pos, optimized_schedule, histVars, allocVars, scoreVars, opsVars>>

OptNext ==
    \/ \E p \in DOMAIN pc : ListTasks(p)
    \/ \E p \in DOMAIN pc : \E now \in OptimizeNows : ListSchedule(p, now)
    \/ \E p \in DOMAIN pc : ReadFails(p)
    \/ \E p \in DOMAIN pc : AllocateNone(p)
    \/ \E p \in DOMAIN pc : AllocateAndUpdate(p)
    \/ \E p \in DOMAIN pc : AllocateUpdateFails(p)
    \/ \E p \in DOMAIN pc : Return(p)

\* one call of optimize_schedule
SpecOptimize ==
    OptInit({ 1 }, MaxTasks) /\ [][OptNext]_vars

\* further documents of a tasks collection: the two tasks of the end-to-end example, A (deadline
\* 13:00, 6 hours after 07:00) and B (deadline 30 days after 07:00), B with a deadline on the
\* target date, a task whose deadline carries a UTC offset, and a task scheduled by an earlier run;
\* then B on the target date with energy_level high, and a 59-minute task of low rank
DayProfiles ==
    TaskProfiles \cup
    { [ priority |-> 3, deadline |-> 20 * 3600, category |-> "personal", energy_level |-> "high",
        status |-> "todo", estimated_hours |-> 2 * 3600 ],
      [ priority |-> 5, deadline |-> 20 * 3600, category |-> "personal", energy_level |-> "high",
        status |-> "todo", estimated_hours |-> 59 * 60 ] } \cup
    { [ priority |-> 1, deadline |-> 13 * 3600, category |-> "academic", energy_level |-> "high",
        status |-> "todo", estimated_hours |-> 3 * 3600 ],
      [ priority |-> 3, deadline |-> 30 * 86400 + 7 * 3600, category |-> "personal", energy_level |-> "low",
        status |-> "todo", estimated_hours |-> 2 * 3600 ],
      [ priority |-> 3, deadline |-> 20 * 3600, category |-> "personal", energy_level |-> "low",
        status |-> "todo", estimated_hours |-> 2 * 3600 ],
      [ priority |-> 2, deadline |-> 9 * 3600, deadline_tz |-> "aware", category |-> "work",
        energy_level |-> "medium", status |-> "todo", estimated_hours |-> 1800 ],
      [ priority |-> 2, deadline |-> 20 * 3600, category |-> "academic", energy_level |-> "medium",
        status |-> "todo", estimated_hours |-> 3 * 3600,
        scheduled |-> [ scheduled_start |-> 14 * 3600, scheduled_end |-> 17 * 3600 ] ] }

\* further states of the schedules collection: a document whose free_slots is '[]', as
\* add_commitments creates it, and a document without free_slots
DaySchedules ==
    ScheduleChoices \cup
    { << [ free_slots |-> <<>> ] >>,
      << [ commitments |-> <<>> ] >> }

DayNext ==
    \/ OptNext
    \/ \E p \in DOMAIN pc : \E now \in OptimizeNows : ScoringFails(p, now)

\* one call of optimize_schedule over the wider collections
SpecDay ==
    OptInitFrom({ 1 }, MaxDayTasks, DayProfiles, DaySchedules) /\ [][DayNext]_vars

\* two calls for the same user and date, interleaved at the store operations
SpecConcurrent ==
    OptInit(Calls, MaxRacingTasks) /\ [][OptNext]_vars

\* the stored tasks with a positive duration of at most one hour
RepeatProfiles ==
    { f \in TaskProfiles : "estimated_hours" \in DOMAIN f /\ f.estimated_hours > 0 /\ f.estimated_hours <= SecPerHour }

\* a call and its repetition for the same user and date, interleaved or one after the other
SpecRepeat ==
    OptInitFrom(Calls, MaxRepeatTasks, RepeatProfiles, ScheduleChoices) /\ [][OptNext]_vars

----------------------------------------------------------------------------
(* The optimizer's variables while no call of optimize_schedule is modelled *)

OptIdle ==
    /\ documents = <<>>
    /\ schedules = <<>>
    /\ pc = <<>>
    /\ tasks = <<>>
    /\ free_slots = <<>>
    /\ now_read = <<>>
    /\ scored_tasks = <<>>
    /\ pos = <<>>
    /\ optimized_schedule = <<>>
    /\ response = <<>>
    /\ written = <<>>
    /\ last_write = <<>>
    /\ failed = <<>>

----------------------------------------------------------------------------
(* Harness for allocate_task_to_slot: repeated calls on one list *)

AllocInit ==
    /\ slot_list \in SlotLists
    /\ orig_slots = slot_list
    /\ pre_slots = slot_list
    /\ call_task = None
    /\ returned = None
    /\ consumed = [ i \in 1..Len(slot_list) |-> 0 ]
    /\ ncalls = 0
    /\ score_args = None
    /\ score = None
    /\ OptIdle
    /\ OpsIdle

AllocateCall(t) ==
    /\ ncalls < MaxCalls
    /\ LET i == ChosenSlot(t.estimated_hours, slot_list)
       IN  /\ call_task' = t
           /\ pre_slots' = slot_list
           /\ returned' = AllocResult(t, slot_list)
           /\ slot_list' = AllocSlots(t, slot_list)
           /\ consumed' = IF i = 0 THEN consumed
                          ELSE [ consumed EXCEPT ![i] = @ + t.estimated_hours ]
           /\ ncalls' = ncalls + 1
    /\ UNCHANGED <<orig_slots, scoreVars, optVars, opsVars>>

AllocNext ==
    \E id \in { "t1" }, est \in EstimatedHours :
        AllocateCall([ id |-> id, estimated_hours |-> est, priority_score |-> 0 ])

SpecAlloc == AllocInit /\ [][AllocNext]_vars

----------------------------------------------------------------------------
(* Claims about allocate_task_to_slot, checked under SpecAlloc *)

\* the last call returned an assignment
Hit == ncalls > 0 /\ returned # None

\* slot i of the list, as observed around the last call, is the one the assignment was drawn from
DrawnFrom(i) ==
    /\ returned.scheduled_start = ParseTime(pre_slots[i].start_time)
    /\ slot_list[i].start_time = Strftime(returned.scheduled_end)
    /\ \A k \in 1..Len(pre_slots) : k # i => slot_list[k] = pre_slots[k]

\* C3 (as claimed): after any sequence of successful allocations, each window's
\* remaining duration equals its original duration minus the sum of the
\* durations returned from it.
C3_RemainingDuration ==
    \A i \in 1..Len(slot_list) :
        SlotDuration(slot_list[i]) = SlotDuration(orig_slots[i]) - consumed[i]

\* C4 (as claimed): every assignment lies inside the window it was drawn from, as
\* that window stood before the call: start <= scheduled_start <= scheduled_end <= end.
C4_InsideWindow ==
    Hit => \E i \in 1..Len(pre_slots) :
              /\ DrawnFrom(i)
              /\ ParseTime(pre_slots[i].start_time) <= returned.scheduled_start
              /\ returned.scheduled_start <= returned.scheduled_end
              /\ returned.scheduled_end <= ParseTime(pre_slots[i].end_time)

\* C5: for every successful allocation scheduled_end - scheduled_start equals the
\* call_task's estimated_hours, and duration_hours equals the same value.
C5_DurationExact ==
    Hit => /\ returned.scheduled_end - returned.scheduled_start = call_task.estimated_hours
           /\ returned.duration_hours = call_task.estimated_hours

C5_Witness == Hit /\ call_task.estimated_hours = 90 /\ ncalls = 2

\* C6: the assignment comes from the first window, in list order, whose duration
\* is >= estimated_hours: every earlier window was strictly smaller.
C6_FirstFit ==
    Hit => \E i \in 1..Len(pre_slots) :
              /\ DrawnFrom(i)
              /\ SlotDuration(pre_slots[i]) >= call_task.estimated_hours
              /\ \A j \in 1..(i - 1) : SlotDuration(pre_slots[j]) < call_task.estimated_hours

C6_Witness ==
    /\ Hit
    /\ Len(pre_slots) = 2
    /\ SlotDuration(pre_slots[1]) < call_task.estimated_hours
    /\ slot_list[2] # pre_slots[2]

\* C7 (as claimed): a successful call sets the chosen window's start_time to the
\* assignment's scheduled_end and changes nothing else in the list.
C7_StartBecomesEnd ==
    Hit => \E i \in 1..Len(pre_slots) :
              /\ Len(slot_list) = Len(pre_slots)
              /\ ParseTime(slot_list[i].start_time) = returned.scheduled_end
              /\ slot_list[i].end_time = pre_slots[i].end_time
              /\ \A k \in 1..Len(pre_slots) : k # i => slot_list[k] = pre_slots[k]

\* C8: when estimated_hours is greater than the duration of every window, the
\* call returns nothing and leaves every window unchanged.
C8_NoFitNoChange ==
    (ncalls > 0 /\ \A i \in 1..Len(pre_slots) : call_task.estimated_hours > SlotDuration(pre_slots[i]))
        => (returned = None /\ slot_list = pre_slots)

C8_Witness ==
    /\ ncalls = 2
    /\ pre_slots # orig_slots
    /\ \A i \in 1..Len(pre_slots) : call_task.estimated_hours > SlotDuration(pre_slots[i])
    /\ \E i \in 1..Len(pre_slots) : call_task.estimated_hours <= SlotDuration(orig_slots[i])

----------------------------------------------------------------------------
(* Harness for calculate_priority_score: one call on arbitrary arguments *)

ScoreInit ==
    /\ score_args \in
         { [ task |-> [ priority |-> p, deadline |-> n + d, category |-> c, energy_level |-> e ],
             now |-> n, hour |-> h ] :
             p \in StoredPriorities, n \in Nows, d \in DeadlineDeltas,
             c \in Categories, e \in EnergyLevels, h \in TargetHours }
    /\ score = None
    /\ slot_list = <<>>
    /\ orig_slots = <<>>
    /\ pre_slots = <<>>
    /\ call_task = None
    /\ returned = None
    /\ consumed = <<>>
    /\ ncalls = 0
    /\ OptIdle
    /\ OpsIdle

ScoreCall ==
    /\ score = None
    /\ score' = [ value |-> calculate_priority_score(score_args.task, score_args.now, score_args.hour) ]
    /\ UNCHANGED <<score_args, allocVars, optVars, opsVars>>

ScoreNext == ScoreCall

SpecScore == ScoreInit /\ [][ScoreNext]_vars

\* C2 (as claimed): for every task the store can hold (any integer priority, any
\* category, any energy level, any deadline) the score lies in [0, 1].
C2_ScoreInUnitInterval ==
    score # None => (0 <= score.value /\ score.value <= 10000)

\* C2 (amended): for every stored priority between 0 and 10 (the API's 1..5
\* included), any category, energy level, deadline, now and target date, the
\* score lies in [0, 1].
C2_ScoreInUnitIntervalPriority0To10 ==
    (score # None /\ score_args.task.priority \in 0..10)
        => (0 <= score.value /\ score.value <= 10000)

C2_Witness ==
    /\ score # None
    /\ score_args.task.priority = 0
    /\ score.value = 10000

----------------------------------------------------------------------------
(* Claims about optimize_schedule *)

\* the schedule fields update_document writes for an assignment
ScheduleFields(a) ==
    [ scheduled_start |-> a.scheduled_start, scheduled_end |-> a.scheduled_end ]

RECURSIVE Replay(_, _)
\* the list that results from offering the tasks ts, in order, to allocate_task_to_slot
Replay(ts, slots) ==
    IF ts = <<>> THEN slots
    ELSE Replay(Tail(ts), AllocSlots(Head(ts), slots))

\* C1 (as claimed): a task with estimated_hours <= 0 (0 also when the field is
\* missing) never receives an assignment, and optimize_schedule never writes its
\* schedule fields.
C1_NonPositiveNeverAllocated ==
    \A k \in 1..Len(documents) :
        GetEstimatedHours(documents[k]) <= 0 =>
            /\ documents[k].scheduled = None
            /\ \A p \in DOMAIN pc : \A j \in 1..Len(optimized_schedule[p]) :
                  optimized_schedule[p][j].task_id # documents[k].id

\* C9: two interleaved calls are not serialised; each allocates against its own
\* copy of the stored window list, consumed only by its own allocations (the
\* stored list is never the one consumed), and every task's persisted schedule
\* fields are those of the assignment of whichever call wrote that task last.
C9_OwnCopyLastWriterWins ==
    /\ \A p \in DOMAIN pc :
          pos[p] >= 1 =>
              free_slots[p] = Replay(SubSeq(scored_tasks[p], 1, pos[p] - 1), ReadFreeSlots(schedules))
    /\ \A k \in 1..Len(documents) :
          IF last_write[k] = None
          THEN documents[k].scheduled = None
          ELSE /\ documents[k].scheduled = ScheduleFields(last_write[k].assignment)
               /\ \E j \in 1..Len(optimized_schedule[last_write[k].call]) :
                     /\ optimized_schedule[last_write[k].call][j] = last_write[k].assignment
                     /\ last_write[k].assignment.task_id = documents[k].id

\* both calls wrote one task, with different assignments, call 2 after call 1, while call 1 still runs
C9_Witness ==
    /\ DOMAIN pc = Calls
    /\ pc[1] = "loop"
    /\ \E k \in 1..Len(documents) :
          /\ last_write[k] # None
          /\ last_write[k].call = 2
          /\ \E j \in 1..Len(written[1]) :
                /\ written[1][j].task_id = documents[k].id
                /\ ScheduleFields(written[1][j]) # documents[k].scheduled

\* C10: when the write of the k-th successful allocation fails, the call answers
\* with an error, the first k-1 allocated tasks (in descending score order) keep
\* the schedule fields the call wrote, and the call writes nothing further.
C10_WriteFailureAborts ==
    \A p \in DOMAIN pc :
        failed[p] > 0 =>
            /\ pc[p] = "error"
            /\ response[p] = ErrorResponse
            /\ Len(optimized_schedule[p]) = failed[p]
            /\ written[p] = SubSeq(optimized_schedule[p], 1, failed[p] - 1)
            /\ \A i, j \in 1..Len(written[p]) :
                  i < j => written[p][i].priority_score >= written[p][j].priority_score
            /\ \A j \in 1..Len(written[p]) :
                  LET k == DocIndex(written[p][j].task_id)
                  IN  /\ documents[k].scheduled # None
                      /\ last_write[k].call = p => documents[k].scheduled = ScheduleFields(written[p][j])

\* the second write failed: one task stays written, a third task that fits was never offered
C10_Witness ==
    /\ failed[1] = 2
    /\ Len(written[1]) = 1
    /\ Len(scored_tasks[1]) = 3
    /\ AllocResult(scored_tasks[1][3], free_slots[1]) # None
    /\ documents[DocIndex(scored_tasks[1][3].id)].scheduled = None

\* C11: when scoring raises for a fetched task, the call reports the error and
\* writes no task's schedule fields, those of the tasks scored before the
\* failing one included; nothing is offered to the allocator.
C11_ScoringFailureWritesNothing ==
    \A p \in DOMAIN pc :
        (\E i \in 1..Len(tasks[p]) : ScoreRaises(tasks[p][i])) =>
            /\ pc[p] \in { "schedule", "error" }
            /\ pc[p] = "error" => response[p] = ErrorResponse
            /\ optimized_schedule[p] = <<>>
            /\ written[p] = <<>>
            /\ \A k \in 1..Len(documents) :
                  /\ last_write[k] = None
                  /\ \A i \in 1..Len(tasks[p]) :
                        tasks[p][i].id = documents[k].id => documents[k].scheduled = tasks[p][i].scheduled

\* the second fetched task raised; the first was scored, would have fitted, and stays unwritten
C11_Witness ==
    /\ pc[1] = "error"
    /\ Len(tasks[1]) = 2
    /\ ScoreRaises(tasks[1][2])
    /\ Len(scored_tasks[1]) = 1
    /\ AllocResult(scored_tasks[1][1], free_slots[1]) # None
    /\ documents[DocIndex(scored_tasks[1][1].id)].scheduled = None

\* C12: every task that received an assignment has scheduled_start and
\* scheduled_end written to its stored document, and the written values are
\* those of the task's assignment in the returned optimized_tasks list.
C12_AssignmentsWritten ==
    \A p \in DOMAIN pc :
        /\ \A j \in 1..Len(written[p]) :
              /\ j <= Len(optimized_schedule[p])
              /\ written[p][j] = optimized_schedule[p][j]
              /\ documents[DocIndex(written[p][j].task_id)].scheduled = ScheduleFields(written[p][j])
        /\ pc[p] \in { "loop", "done" } => Len(written[p]) = Len(optimized_schedule[p])
        /\ pc[p] = "done" =>
              /\ response[p].optimized_tasks = written[p]
              /\ \A j \in 1..Len(response[p].optimized_tasks) :
                    LET a == response[p].optimized_tasks[j]
                    IN  /\ documents[DocIndex(a.task_id)].scheduled.scheduled_start = a.scheduled_start
                        /\ documents[DocIndex(a.task_id)].scheduled.scheduled_end = a.scheduled_end

\* two tasks were assigned and written; one of them carried the schedule fields of an earlier run
C12_Witness ==
    /\ pc[1] = "done"
    /\ response[1].allocated_tasks = 2
    /\ \E i \in 1..Len(tasks[1]) :
          /\ tasks[1][i].scheduled # None
          /\ documents[DocIndex(tasks[1][i].id)].scheduled # tasks[1][i].scheduled

\* the fetched copy of the task with the given id: its schedule fields are those stored before the call wrote
FetchedTask(p, id) == tasks[p][CHOOSE i \in 1..Len(tasks[p]) : tasks[p][i].id = id]

\* the window list as it stands when the i-th task in score order is offered
SlotsAtTurn(p, i) == Replay(SubSeq(scored_tasks[p], 1, i - 1), ReadFreeSlots(schedules))

\* every window of the list is shorter than the task
NoWindowLargeEnough(t, slots) ==
    \A i \in 1..Len(slots) : SlotDuration(slots[i]) < t.estimated_hours

\* C13: a task for which no window is large enough keeps the stored
\* scheduled_start/scheduled_end it had before the call (unset if unset); with
\* the one window 08:00-09:00 and one 3-hour task, allocated_tasks is 0 and
\* nothing is written.
C13_NoFitLeavesFieldsUntouched ==
    \A p \in DOMAIN pc :
        /\ \A i \in 1..(pos[p] - 1) :
              LET t == scored_tasks[p][i]
              IN  NoWindowLargeEnough(t, SlotsAtTurn(p, i)) =>
                      /\ documents[DocIndex(t.id)].scheduled = FetchedTask(p, t.id).scheduled
                      /\ last_write[DocIndex(t.id)] = None
                      /\ \A j \in 1..Len(optimized_schedule[p]) : optimized_schedule[p][j].task_id # t.id
        /\ ( /\ pc[p] = "done"
             /\ Len(documents) = 1
             /\ GetEstimatedHours(documents[1]) = 3 * SecPerHour
             /\ ReadFreeSlots(schedules) = << [ start_time |-> <<8, 0>>, end_time |-> <<9, 0>> ] >> )
           => /\ response[p].allocated_tasks = 0
              /\ written[p] = <<>>
              /\ Len(tasks[p]) = 1 => documents[1].scheduled = tasks[p][1].scheduled

\* the one 3-hour task met the one 1-hour window: fetched, offered, nothing allocated, fields still unset
C13_Witness ==
    /\ pc[1] = "done"
    /\ Len(documents) = 1
    /\ Len(scored_tasks[1]) = 1
    /\ scored_tasks[1][1].estimated_hours = 3 * SecPerHour
    /\ free_slots[1] = << [ start_time |-> <<8, 0>>, end_time |-> <<9, 0>> ] >>
    /\ response[1].allocated_tasks = 0
    /\ documents[1].scheduled = None

\* a task scheduled by an earlier run found no window large enough and keeps the earlier schedule fields
C13_WitnessKept ==
    /\ pc[1] = "done"
    /\ \E i \in 1..Len(scored_tasks[1]) :
          /\ NoWindowLargeEnough(scored_tasks[1][i], SlotsAtTurn(1, i))
          /\ documents[DocIndex(scored_tasks[1][i].id)].scheduled # None

RECURSIVE ReplayAssignments(_, _)
\* the assignments that result from offering the tasks ts, in order, to allocate_task_to_slot
ReplayAssignments(ts, slots) ==
    IF ts = <<>> THEN <<>>
    ELSE (IF AllocResult(Head(ts), slots) = None THEN <<>> ELSE << AllocResult(Head(ts), slots) >>)
            \o ReplayAssignments(Tail(ts), AllocSlots(Head(ts), slots))

\* C14: a task that fits no window does not make the call fail: it is left out
\* of optimized_tasks, the window list is unchanged by it, and every
\* lower-ranked task is still offered to the allocator, so that a smaller
\* lower-ranked task is allocated.
C14_NoFitIsSkipped ==
    \A p \in DOMAIN pc :
        /\ pc[p] = "error" => (pos[p] = 0 \/ failed[p] > 0)
        /\ \A i \in 1..(pos[p] - 1) :
              LET t == scored_tasks[p][i]
              IN  NoWindowLargeEnough(t, SlotsAtTurn(p, i)) =>
                      /\ SlotsAtTurn(p, i + 1) = SlotsAtTurn(p, i)
                      /\ \A j \in 1..Len(optimized_schedule[p]) : optimized_schedule[p][j].task_id # t.id
        /\ (pc[p] \in { "loop", "done" } /\ pos[p] >= 1) =>
              /\ free_slots[p] = SlotsAtTurn(p, pos[p])
              /\ optimized_schedule[p] =
                    ReplayAssignments(SubSeq(scored_tasks[p], 1, pos[p] - 1), ReadFreeSlots(schedules))
        /\ pc[p] = "done" =>
              /\ pos[p] = Len(scored_tasks[p]) + 1
              /\ response[p].status_code = 200
              /\ response[p].optimized_tasks = ReplayAssignments(scored_tasks[p], ReadFreeSlots(schedules))

\* the higher-ranked task fitted no window, the lower-ranked smaller one was allocated and written
C14_Witness ==
    /\ pc[1] = "done"
    /\ Len(scored_tasks[1]) = 2
    /\ NoWindowLargeEnough(scored_tasks[1][1], SlotsAtTurn(1, 1))
    /\ scored_tasks[1][2].estimated_hours > 0
    /\ scored_tasks[1][2].estimated_hours < scored_tasks[1][1].estimated_hours
    /\ response[1].allocated_tasks = 1
    /\ response[1].optimized_tasks[1].task_id = scored_tasks[1][2].id
    /\ documents[DocIndex(scored_tasks[1][2].id)].scheduled = ScheduleFields(response[1].optimized_tasks[1])

\* the priority_score values of a list are in non-increasing order
NonIncreasing(seq) ==
    \A i, j \in 1..Len(seq) : i < j => seq[i].priority_score >= seq[j].priority_score

\* C15: tasks are offered to the allocator in non-increasing priority_score
\* order against one shared window list: optimized_tasks is in non-increasing
\* score order, and what a task is given depends only on the windows left by
\* the tasks ranked before it.
C15_DescendingScoreOrder ==
    \A p \in DOMAIN pc :
        /\ pos[p] >= 1 => NonIncreasing(scored_tasks[p])
        /\ NonIncreasing(optimized_schedule[p])
        /\ pc[p] = "done" => NonIncreasing(response[p].optimized_tasks)
        /\ \A j \in 1..Len(optimized_schedule[p]) :
              \E i \in 1..Len(scored_tasks[p]) :
                  /\ scored_tasks[p][i].id = optimized_schedule[p][j].task_id
                  /\ (pos[p] > i \/ (pos[p] = i /\ pc[p] = "error"))
                  /\ optimized_schedule[p][j] = AllocResult(scored_tasks[p][i], SlotsAtTurn(p, i))
                  /\ \A i2 \in 1..(i - 1) :
                        scored_tasks[p][i2].priority_score >= scored_tasks[p][i].priority_score
        /\ (pc[p] \in { "loop", "done" } /\ pos[p] >= 1) => free_slots[p] = SlotsAtTurn(p, pos[p])

\* the task fetched second scored higher, was offered first and took the start of the window;
\* the task fetched first follows it in the same window and in optimized_tasks
C15_Witness ==
    /\ pc[1] = "done"
    /\ Len(tasks[1]) = 2
    /\ response[1].allocated_tasks = 2
    /\ response[1].optimized_tasks[1].task_id = tasks[1][2].id
    /\ response[1].optimized_tasks[2].task_id = tasks[1][1].id
    /\ response[1].optimized_tasks[1].priority_score > response[1].optimized_tasks[2].priority_score
    /\ response[1].optimized_tasks[1].scheduled_start = 8 * SecPerHour
    /\ response[1].optimized_tasks[2].scheduled_start = response[1].optimized_tasks[1].scheduled_end
    /\ response[1].optimized_tasks[2].scheduled_start > 8 * SecPerHour

\* the position at which the Task Store returned the task with the given id
FetchIndex(p, id) == CHOOSE i \in 1..Len(tasks[p]) : tasks[p][i].id = id

\* C16: the descending sort is stable: two tasks with identical scores are
\* processed, and appear in optimized_tasks, in the relative order in which the
\* Task Store returned them.
C16_StableSort ==
    \A p \in DOMAIN pc :
        /\ \A i, j \in 1..Len(scored_tasks[p]) :
              (i < j /\ scored_tasks[p][i].priority_score = scored_tasks[p][j].priority_score)
                  => FetchIndex(p, scored_tasks[p][i].id) < FetchIndex(p, scored_tasks[p][j].id)
        /\ \A i, j \in 1..Len(optimized_schedule[p]) :
              (i < j /\ optimized_schedule[p][i].priority_score = optimized_schedule[p][j].priority_score)
                  => FetchIndex(p, optimized_schedule[p][i].task_id)
                        < FetchIndex(p, optimized_schedule[p][j].task_id)

\* two tasks of different length with the same score: the one fetched first got the start of the window
C16_Witness ==
    /\ pc[1] = "done"
    /\ Len(tasks[1]) = 2
    /\ tasks[1][1].estimated_hours # tasks[1][2].estimated_hours
    /\ response[1].allocated_tasks = 2
    /\ response[1].optimized_tasks[1].priority_score = response[1].optimized_tasks[2].priority_score
    /\ response[1].optimized_tasks[1].task_id = tasks[1][1].id
    /\ response[1].optimized_tasks[2].task_id = tasks[1][2].id
    /\ response[1].optimized_tasks[2].scheduled_start = response[1].optimized_tasks[1].scheduled_end
    /\ response[1].optimized_tasks[1].scheduled_end > response[1].optimized_tasks[1].scheduled_start

\* C17: a task whose status is completed is never fetched, so never scored,
\* never offered to the allocator, never in optimized_tasks, and its schedule
\* fields are never written by optimize_schedule.
C17_CompletedNeverScheduled ==
    \A k \in 1..Len(documents) :
        documents[k].status = "completed" =>
            /\ documents[k].scheduled = None
            /\ last_write[k] = None
            /\ \A p \in DOMAIN pc :
                  /\ \A i \in 1..Len(tasks[p]) : tasks[p][i].id # documents[k].id
                  /\ \A i \in 1..Len(scored_tasks[p]) : scored_tasks[p][i].id # documents[k].id
                  /\ \A i \in 1..Len(optimized_schedule[p]) : optimized_schedule[p][i].task_id # documents[k].id
                  /\ \A i \in 1..Len(written[p]) : written[p][i].task_id # documents[k].id
                  /\ pc[p] = "done" => response[p].total_tasks < Len(documents)

\* a completed 1-hour task due on the date lay between two tasks that were allocated; windows were left over
C17_Witness ==
    /\ pc[1] = "done"
    /\ Len(documents) = 3
    /\ documents[2].status = "completed"
    /\ documents[2].estimated_hours = SecPerHour
    /\ response[1].total_tasks = 2
    /\ response[1].allocated_tasks = 2
    /\ \E i \in 1..Len(free_slots[1]) : SlotDuration(free_slots[1][i]) >= SecPerHour

\* task A of the end-to-end example: priority 1, deadline 13:00, 3 hours, academic, high energy
IsTaskA(d) ==
    /\ d.priority = 1
    /\ d.deadline = 13 * SecPerHour
    /\ GetEstimatedHours(d) = 3 * SecPerHour
    /\ d.category = "academic"
    /\ d.energy_level = "high"
    /\ d.status = "todo"

\* what task B of the example has whatever its deadline: priority 3, 2 hours, personal, low energy
IsTaskBExceptDeadline(d) ==
    /\ d.priority = 3
    /\ GetEstimatedHours(d) = 2 * SecPerHour
    /\ d.category = "personal"
    /\ d.energy_level = "low"
    /\ d.status = "todo"

\* the example's run has returned: now is 07:00 on the target date, so that A is due 6 hours
\* from now, the window list is the single window 08:00-22:00, the store holds A and one more task
ExampleRun(p) ==
    /\ pc[p] = "done"
    /\ now_read[p] = [ t |-> 7 * SecPerHour ]
    /\ ReadFreeSlots(schedules) = << [ start_time |-> <<8, 0>>, end_time |-> <<22, 0>> ] >>
    /\ Len(documents) = 2
    /\ IsTaskA(documents[1])
    /\ IsTaskBExceptDeadline(documents[2])

\* A is allocated 08:00-11:00 and B 11:00-13:00, A ranked first with the higher score
BothAllocated(p) ==
    /\ response[p].allocated_tasks = 2
    /\ response[p].optimized_tasks[1].task_id = documents[1].id
    /\ response[p].optimized_tasks[1].scheduled_start = 8 * SecPerHour
    /\ response[p].optimized_tasks[1].scheduled_end = 11 * SecPerHour
    /\ response[p].optimized_tasks[2].task_id = documents[2].id
    /\ response[p].optimized_tasks[2].scheduled_start = 11 * SecPerHour
    /\ response[p].optimized_tasks[2].scheduled_end = 13 * SecPerHour
    /\ response[p].optimized_tasks[1].priority_score > response[p].optimized_tasks[2].priority_score

\* C18 (as claimed): with the window 08:00-22:00, A due 6 hours from now and B
\* due 30 days from now, optimize scores A higher than B, allocates A to
\* 08:00-11:00 and B to 11:00-13:00 and reports allocated_tasks == 2.
C18_ExampleAsStated ==
    \A p \in DOMAIN pc :
        (ExampleRun(p) /\ documents[2].deadline = 30 * SecPerDay + 7 * SecPerHour) => BothAllocated(p)

\* C18 (amended): A does score higher than B. With B due 30 days from now the
\* call fetches only A (B's deadline is not on the target date): A gets
\* 08:00-11:00, total_tasks and allocated_tasks are 1, B is left unscheduled.
\* With B due on the target date (20:00), A (0.81) ranks before B (0.72), A gets
\* 08:00-11:00, B 11:00-13:00, and allocated_tasks is 2.
C18_ExampleOnTargetDate ==
    \A p \in DOMAIN pc :
        ExampleRun(p) =>
            /\ calculate_priority_score(document_to_task(documents[1]), now_read[p].t, TargetDateHour)
                  > calculate_priority_score(document_to_task(documents[2]), now_read[p].t, TargetDateHour)
            /\ documents[2].deadline = 30 * SecPerDay + 7 * SecPerHour =>
                  /\ response[p].total_tasks = 1
                  /\ response[p].allocated_tasks = 1
                  /\ response[p].optimized_tasks[1].task_id = documents[1].id
                  /\ response[p].optimized_tasks[1].scheduled_start = 8 * SecPerHour
                  /\ response[p].optimized_tasks[1].scheduled_end = 11 * SecPerHour
                  /\ documents[1].scheduled = ScheduleFields(response[p].optimized_tasks[1])
                  /\ documents[2].scheduled = None
            /\ documents[2].deadline = 20 * SecPerHour =>
                  /\ BothAllocated(p)
                  /\ response[p].optimized_tasks[1].priority_score = 8100
                  /\ response[p].optimized_tasks[2].priority_score = 7200
                  /\ documents[1].scheduled = ScheduleFields(response[p].optimized_tasks[1])
                  /\ documents[2].scheduled = ScheduleFields(response[p].optimized_tasks[2])

\* the example's run with B due at 20:00 on the target date has returned two assignments
C18_Witness ==
    /\ ExampleRun(1)
    /\ documents[2].deadline = 20 * SecPerHour
    /\ response[1].allocated_tasks = 2
    /\ response[1].optimized_tasks[2].scheduled_end = 13 * SecPerHour

\* the example's run as the spec states it has returned: B, due in 30 days, was not fetched
C18_WitnessAsStated ==
    /\ ExampleRun(1)
    /\ documents[2].deadline = 30 * SecPerDay + 7 * SecPerHour
    /\ response[1].total_tasks = 1

\* the store holds no windows for the user and date: no schedule record, or a
\* first record whose free-slot list is absent or empty
StoreHoldsNoWindows ==
    \/ schedules = <<>>
    \/ "free_slots" \notin DOMAIN schedules[1]
    \/ schedules[1].free_slots = <<>>

\* the window list the claim says the call starts from
WindowsToUse ==
    IF StoreHoldsNoWindows
    THEN << [ start_time |-> <<8, 0>>, end_time |-> <<22, 0>> ] >>
    ELSE schedules[1].free_slots

\* C19: the call starts from the single default window 08:00-22:00 exactly when
\* the store holds no windows for the user and date (no record, or a record
\* whose free-slot list is empty or absent), and otherwise from the stored
\* list in its stored order.
C19_DefaultWindowWhenNoneStored ==
    \A p \in DOMAIN pc :
        /\ (pos[p] = 0 /\ now_read[p] # None) => free_slots[p] = WindowsToUse
        /\ pos[p] >= 1 =>
              free_slots[p] = Replay(SubSeq(scored_tasks[p], 1, pos[p] - 1), WindowsToUse)
        /\ (pos[p] = 1 /\ pc[p] = "loop") =>
              /\ free_slots[p] = WindowsToUse
              /\ (free_slots[p] = << [ start_time |-> <<8, 0>>, end_time |-> <<22, 0>> ] >>)
                    <=> StoreHoldsNoWindows

\* a schedule record exists but its free-slot list is empty: the first task is about to be offered 08:00-22:00
C19_Witness ==
    /\ pc[1] = "loop"
    /\ pos[1] = 1
    /\ schedules # <<>>
    /\ "free_slots" \in DOMAIN schedules[1]
    /\ schedules[1].free_slots = <<>>
    /\ free_slots[1] = << [ start_time |-> <<8, 0>>, end_time |-> <<22, 0>> ] >>

\* two windows are stored, the later one first: the call starts from them in that order
C19_WitnessStored ==
    /\ pc[1] = "loop"
    /\ pos[1] = 1
    /\ Len(free_slots[1]) = 2
    /\ ParseTime(free_slots[1][1].start_time) > ParseTime(free_slots[1][2].start_time)
    /\ free_slots[1] = schedules[1].free_slots

\* the scored task with its deadline moved to d after now, everything else the same
WithDeadline(d) == [ score_args.task EXCEPT !.deadline = score_args.now + d ]

\* C20: the deadline factor does not increase with the hours until the
\* deadline: of two tasks identical except for the deadline, the one due
\* earlier has a deadline factor (and so a score) at least as high, and a past
\* deadline gets the maximum tier, the one of a deadline at most 1 hour away.
C20_UrgencyMonotone ==
    score # None =>
        /\ \A d \in DeadlineDeltas :
              WithDeadline(d).deadline <= score_args.task.deadline =>
                  /\ DeadlineScore(WithDeadline(d), score_args.now)
                        >= DeadlineScore(score_args.task, score_args.now)
                  /\ calculate_priority_score(WithDeadline(d), score_args.now, score_args.hour) - score.value
                        = DeadlineScore(WithDeadline(d), score_args.now)
                             - DeadlineScore(score_args.task, score_args.now)
        /\ \A d \in DeadlineDeltas :
              DeadlineScore(WithDeadline(0 - d), score_args.now)
                    >= DeadlineScore(score_args.task, score_args.now)
        /\ score_args.task.deadline < score_args.now =>
              /\ DeadlineScore(score_args.task, score_args.now) = 100 * 35
              /\ DeadlineScore(score_args.task, score_args.now)
                    = DeadlineScore(WithDeadline(SecPerHour), score_args.now)

\* a task whose deadline passed an hour ago has been scored, and a later deadline would score lower
C20_Witness ==
    /\ score # None
    /\ score_args.task.deadline < score_args.now
    /\ score_args.task.priority = 3
    /\ \E d \in DeadlineDeltas :
          calculate_priority_score(WithDeadline(d), score_args.now, score_args.hour) < score.value

----------------------------------------------------------------------------
(* The scoring formula as the specification states it, in millionths *)

\* the deadline step value U, in hundredths, for a deadline d seconds after now
StatedU(d) ==
    LET h == IF d > 0 THEN d ELSE 0
    IN  CASE h <= 3600         -> 100
          [] h > 3600   /\ h <= 6 * 3600   -> 90
          [] h > 6 * 3600   /\ h <= 24 * 3600  -> 80
          [] h > 24 * 3600  /\ h <= 48 * 3600  -> 60
          [] h > 48 * 3600  /\ h <= 168 * 3600 -> 40
          [] OTHER -> 20

\* the category value C, in hundredths
StatedC(c) ==
    CASE c = "academic" -> 100 [] c = "work" -> 80 [] c = "personal" -> 60 [] OTHER -> 50

\* the energy-match table value E, in hundredths, at the given hour of the target date
StatedE(hour, level) ==
    LET row == IF hour >= 6 /\ hour < 12 THEN <<100, 70, 30>>
               ELSE IF hour >= 12 /\ hour < 18 THEN <<70, 100, 50>>
               ELSE <<30, 50, 100>>
    IN  CASE level = "high" -> row[1] [] level = "medium" -> row[2] [] level = "low" -> row[3] [] OTHER -> 50

\* x millionths rounded to ten-thousandths, halves to even as round() does
RoundTo4(x) ==
    LET q == x \div 100
        r == x % 100
    IN  IF r > 50 \/ (r = 50 /\ q % 2 = 1) THEN q + 1 ELSE q

\* 0.35*U + 0.25*(6-priority)/5 + 0.15*C + 0.15*E + 0.10*0.5, in millionths
StatedSum(t, now, hour) ==
    35 * StatedU(t.deadline - now) * 100
      + (25 * (6 - t.priority) * 10000) \div 5
      + 15 * StatedC(t.category) * 100
      + 15 * StatedE(hour, t.energy_level) * 100
      + 10 * 50 * 100

\* C21: for every task with priority in 1..5 the score equals
\* 0.35*U + 0.25*(6-priority)/5 + 0.15*C + 0.15*E + 0.10*0.5 rounded to 4
\* decimal places, with U, C and E the stated step and table values.
C21_WeightedSum ==
    (score # None /\ score_args.task.priority \in 1..5) =>
        score.value = RoundTo4(StatedSum(score_args.task, score_args.now, score_args.hour))

\* a priority-3 task with a category and an energy level outside the tables, due in over 7 days, was scored
C21_Witness ==
    /\ score # None
    /\ score_args.task.priority = 3
    /\ score_args.task.category = ""
    /\ score_args.task.energy_level = "none"
    /\ score_args.task.deadline - score_args.now > 168 * 3600
    /\ score.value = 700 + 1500 + 750 + 750 + 500

\* the stored tasks the day's queries select: not completed, deadline on the target date
FetchedForDay ==
    { k \in 1..Len(documents) :
        /\ documents[k].status # "completed"
        /\ documents[k].deadline >= 0
        /\ documents[k].deadline < SecPerDay }

\* C22: in the result, total_tasks is the number of tasks fetched for the day,
\* allocated_tasks the number of entries of optimized_tasks, and
\* allocated_tasks <= total_tasks.
C22_Counts ==
    \A p \in DOMAIN pc :
        pc[p] = "done" =>
            /\ response[p].total_tasks = Len(tasks[p])
            /\ response[p].total_tasks = Cardinality(FetchedForDay)
            /\ response[p].allocated_tasks = Len(response[p].optimized_tasks)
            /\ response[p].allocated_tasks <= response[p].total_tasks

\* two tasks were fetched, one of them fitted no window
C22_Witness ==
    /\ pc[1] = "done"
    /\ response[1].total_tasks = 2
    /\ response[1].allocated_tasks = 1
    /\ Len(response[1].optimized_tasks) = 1

\* a scored task without its score: the task as it was passed to calculate_priority_score
ScoredInput(st) == [ x \in DOMAIN st \ { "priority_score" } |-> st[x] ]

\* two calls that read the same clock gave equal tasks equal scores
C23_EqualInputsEqualScores ==
    \A p, q \in DOMAIN pc :
        (pos[p] >= 1 /\ pos[q] >= 1 /\ now_read[p] = now_read[q]) =>
            \A i \in 1..Len(scored_tasks[p]) : \A j \in 1..Len(scored_tasks[q]) :
                ScoredInput(scored_tasks[p][i]) = ScoredInput(scored_tasks[q][j])
                    => scored_tasks[p][i].priority_score = scored_tasks[q][j].priority_score

\* the step in which call p scores its tasks leaves the tasks, the window list it read and the store as they were
C23_ScoringStepFrame ==
    \A p \in DOMAIN pc :
        (pc[p] = "schedule" /\ pc'[p] = "loop") =>
            /\ tasks' = tasks
            /\ documents' = documents
            /\ schedules' = schedules
            /\ free_slots'[p] = WindowsToUse
            /\ Len(scored_tasks'[p]) = Len(tasks[p])
            /\ \A i \in 1..Len(tasks[p]) :
                  \E j \in 1..Len(scored_tasks'[p]) : ScoredInput(scored_tasks'[p][j]) = tasks[p][i]

DistantRival(c) ==
    [ score_args.task EXCEPT !.priority = @ - 1,
                             !.deadline = score_args.now + 10 * SecPerDay,
                             !.category = c ]

\* C24: a task due in at most 6 hours ranks before a task due in 10 days even
\* when the distant task's user priority is one level higher (2 versus 3) and
\* both have the same energy level.
C24_UrgentBeforeDistant ==
    ( /\ score # None
      /\ score_args.task.priority \in 2..5
      /\ score_args.task.deadline - score_args.now <= 6 * SecPerHour )
    => /\ \A c \in Categories :
             score.value > calculate_priority_score(DistantRival(c), score_args.now, score_args.hour)
       /\ test_priority_score(score_args.task, score_args.now)
             < test_priority_score(DistantRival(score_args.task.category), score_args.now)

\* a priority-3 task due in exactly 6 hours was scored; its rival has the higher importance term
C24_Witness ==
    /\ score # None
    /\ score_args.task.priority = 3
    /\ score_args.task.deadline - score_args.now = 6 * SecPerHour
    /\ ImportanceScore(DistantRival(score_args.task.category)) > ImportanceScore(score_args.task)
    /\ score.value > calculate_priority_score(DistantRival(score_args.task.category), score_args.now, score_args.hour)

\* two scored tasks identical except for energy_level (and the id and score that follow from it)
SameButEnergy(a, b) ==
    /\ a.energy_level # b.energy_level
    /\ \A x \in DOMAIN a \ { "id", "energy_level", "priority_score" } : a[x] = b[x]

\* C25 (as claimed): in the ranking used for scheduling, of two tasks identical
\* except for energy_level, the one with energy_level high is ordered before
\* the one with energy_level low.
C25_HighEnergyFirst ==
    \A p \in DOMAIN pc :
        pos[p] >= 1 =>
            \A i, j \in 1..Len(scored_tasks[p]) :
                ( /\ SameButEnergy(scored_tasks[p][i], scored_tasks[p][j])
                  /\ scored_tasks[p][i].energy_level = "high"
                  /\ scored_tasks[p][j].energy_level = "low" ) => i < j

RECURSIVE TotalDuration(_)
\* the sum of duration_hours over a list of assignments
TotalDuration(as) ==
    IF as = <<>> THEN 0 ELSE Head(as).duration_hours + TotalDuration(Tail(as))

RECURSIVE TotalWindow(_)
\* the sum of the durations of a list of windows
TotalWindow(slots) ==
    IF slots = <<>> THEN 0 ELSE SlotDuration(Head(slots)) + TotalWindow(Tail(slots))

\* C26 (as claimed): in one run the durations of all scheduled tasks sum to no
\* more than the available time, the sum of the window durations as read at
\* the start of the run; and a task that does not fit is skipped without
\* keeping later tasks that fit from being scheduled.
C26_WithinAvailableTime ==
    \A p \in DOMAIN pc :
        pos[p] >= 1 =>
            /\ TotalDuration(optimized_schedule[p]) <= TotalWindow(WindowsToUse)
            /\ pc[p] = "done" =>
                  optimized_schedule[p] = ReplayAssignments(scored_tasks[p], WindowsToUse)

\* the windows of the list have start <= end and no two of them share time
DisjointWindows(slots) ==
    /\ \A i \in 1..Len(slots) : ParseTime(slots[i].start_time) <= ParseTime(slots[i].end_time)
    /\ \A i, j \in 1..Len(slots) :
          i # j => \/ ParseTime(slots[i].end_time) <= ParseTime(slots[j].start_time)
                   \/ ParseTime(slots[j].end_time) <= ParseTime(slots[i].start_time)

\* C27 (as claimed): within one call whose window list consists of pairwise
\* disjoint windows with start <= end, the scheduled intervals of two distinct
\* allocated tasks with positive estimated_hours do not overlap, whatever the
\* estimated_hours values (whole minutes or not).
C27_NoOverlap ==
    \A p \in DOMAIN pc :
        (pos[p] >= 1 /\ DisjointWindows(WindowsToUse)) =>
            \A i, j \in 1..Len(optimized_schedule[p]) :
                ( /\ i # j
                  /\ optimized_schedule[p][i].duration_hours > 0
                  /\ optimized_schedule[p][j].duration_hours > 0 )
                => \/ optimized_schedule[p][i].scheduled_end <= optimized_schedule[p][j].scheduled_start
                   \/ optimized_schedule[p][j].scheduled_end <= optimized_schedule[p][i].scheduled_start

\* every call works on the full stored windows, and two finished calls that read the same clock agree
C28_FullWindowsEachCall ==
    /\ \A p \in DOMAIN pc :
          /\ (pos[p] = 1 /\ pc[p] = "loop") => free_slots[p] = WindowsToUse
          /\ pos[p] >= 1 =>
                free_slots[p] = Replay(SubSeq(scored_tasks[p], 1, pos[p] - 1), WindowsToUse)
    /\ \A p, q \in DOMAIN pc :
          (pc[p] = "done" /\ pc[q] = "done" /\ now_read[p] = now_read[q]) =>
              response[p].optimized_tasks = response[q].optimized_tasks

\* C28: optimize_schedule never writes window consumption back: the stored
\* free-slot list stays what it was before the first call, every call starts
\* from the full windows, and with unchanged tasks and clock a repeated call
\* returns the assignments of the first.
C28_WindowsNeverWrittenBack ==
    [][schedules' = schedules]_vars /\ [] C28_FullWindowsEachCall

\* both calls returned the same non-empty assignments; call 2 wrote last, after call 1 had consumed its copy
C28_Witness ==
    /\ DOMAIN pc = Calls
    /\ pc[1] = "done"
    /\ pc[2] = "done"
    /\ now_read[1] = now_read[2]
    /\ response[1].allocated_tasks >= 1
    /\ response[2].optimized_tasks = response[1].optimized_tasks
    /\ free_slots[1] # WindowsToUse
    /\ \E k \in 1..Len(documents) : last_write[k] # None /\ last_write[k].call = 2
    /\ schedules # <<>>

\* the 'low' row of the energy match table, in hundredths, 0.5 for a task energy outside it
LowRow(level) ==
    CASE level = "high" -> 30 [] level = "medium" -> 50 [] level = "low" -> 100 [] OTHER -> 50

\* C29: in optimize_schedule the target date comes from the date-only
\* parameter, its hour is 0, and the current-energy bucket is 'low' for every
\* task of every run: the energy factor is always taken from the 'low' row,
\* never from the 'high' or 'medium' row.
C29_EnergyBucketAlwaysLow ==
    /\ TargetDateHour = 0
    /\ \A p \in DOMAIN pc : \A i \in 1..Len(scored_tasks[p]) :
          LET st == scored_tasks[p][i]
          IN  st.priority_score
                 = DeadlineScore(st, now_read[p].t) + ImportanceScore(st) + CategoryScore(st)
                      + LowRow(st.energy_level) * 15 + UserPreferenceScore

\* at 08:30 in the morning a high-energy task was scored with the 0.3 of the 'low' row
C29_Witness ==
    /\ pos[1] >= 1
    /\ now_read[1] = [ t |-> 8 * SecPerHour + 1800 ]
    /\ \E i \in 1..Len(scored_tasks[1]) :
          /\ scored_tasks[1][i].energy_level = "high"
          /\ scored_tasks[1][i].priority_score
                = DeadlineScore(scored_tasks[1][i], now_read[1].t) + ImportanceScore(scored_tasks[1][i])
                     + CategoryScore(scored_tasks[1][i]) + 30 * 15 + 500

----------------------------------------------------------------------------
(* The task operations get_task, update_task, delete_task, update_task_status *)

\* the X-User-Id header values of the requests and the owners of the stored tasks
Users == { "u1", "u2" }

\* the document ids the requests name
OpTaskIds == { "a", "b" }

\* TaskStatus
Statuses == { "todo", "in-progress", "completed" }

\* TaskUpdate bodies, model_dump(exclude_unset=True): a priority, or a status
TaskUpdates == { [ priority |-> 1 ], [ status |-> "completed" ], [ status |-> "todo" ] }

\* raise HTTPException(status_code=403, detail="Access denied"); its text holds no "not found"
AccessDenied == [ is_http |-> TRUE, status_code |-> 403, says_not_found |-> FALSE ]

\* the exception get_document raises for an id the collection does not hold; whether its
\* message contains "not found" is the store's choice
DocumentMissing(says) == [ is_http |-> FALSE, status_code |-> 0, says_not_found |-> says ]

\* get_task: except Exception as e: 404 if "not found" in str(e).lower(), else 500
GetTaskExcept(e) == IF e.says_not_found THEN 404 ELSE 500

\* update_task, delete_task, update_task_status: an HTTPException is raised again, anything else becomes 500
ReraiseExcept(e) == IF e.is_http THEN e.status_code ELSE 500

\* existing.get('user_id') != user_id
NotOwner(doc, user_id) == doc.user_id # user_id

\* update_data of update_task applied by update_document
ApplyUpdate(doc, upd) ==
    [ x \in DOMAIN doc |->
        IF x \in DOMAIN upd THEN upd[x]
        ELSE IF x = "completed_at" /\ "status" \in DOMAIN upd /\ upd.status = "completed" THEN "set"
        ELSE doc[x] ]

\* update_data of update_task_status applied by update_document
ApplyStatus(doc, status) ==
    [ doc EXCEPT !.status = status,
                 !.completed_at = IF status = "completed" THEN "set" ELSE @ ]

\* what is recorded of a request and its answer
Answer(op, id, user_id, code) ==
    [ op |-> op, task_id |-> id, user_id |-> user_id, status_code |-> code, before |-> task_docs[id] ]

OpsInit ==
    /\ task_docs \in [ OpTaskIds -> { [ user_id |-> u, status |-> "todo", priority |-> 3, completed_at |-> "unset" ] :
                                        u \in Users } ]
    /\ op_response = None
    /\ nops = 0
    /\ slot_list = <<>>
    /\ orig_slots = <<>>
    /\ pre_slots = <<>>
    /\ call_task = None
    /\ returned = None
    /\ consumed = <<>>
    /\ ncalls = 0
    /\ score_args = None
    /\ score = None
    /\ OptIdle

\* GET /tasks/{task_id}
GetTask(id, user_id) ==
    /\ nops < MaxRequests
    /\ \E says \in BOOLEAN :
          op_response' = Answer("get_task", id, user_id,
                                IF task_docs[id] = None THEN GetTaskExcept(DocumentMissing(says))
                                ELSE IF NotOwner(task_docs[id], user_id) THEN GetTaskExcept(AccessDenied)
                                ELSE 200)
    /\ nops' = nops + 1
    /\ UNCHANGED <<task_docs, allocVars, scoreVars, optVars>>

\* PUT /tasks/{task_id}
UpdateTask(id, user_id, upd) ==
    /\ nops < MaxRequests
    /\ \E says \in BOOLEAN :
          op_response' = Answer("update_task", id, user_id,
                                IF task_docs[id] = None THEN ReraiseExcept(DocumentMissing(says))
                                ELSE IF NotOwner(task_docs[id], user_id) THEN ReraiseExcept(AccessDenied)
                                ELSE 200)
    /\ task_docs' = IF task_docs[id] # None /\ ~NotOwner(task_docs[id], user_id)
                    THEN [ task_docs EXCEPT ![id] = ApplyUpdate(@, upd) ]
                    ELSE task_docs
    /\ nops' = nops + 1
    /\ UNCHANGED <<allocVars, scoreVars, optVars>>

\* DELETE /tasks/{task_id}
DeleteTask(id, user_id) ==
    /\ nops < MaxRequests
    /\ \E says \in BOOLEAN :
          op_response' = Answer("delete_task", id, user_id,
                                IF task_docs[id] = None THEN ReraiseExcept(DocumentMissing(says))
                                ELSE IF NotOwner(task_docs[id], user_id) THEN ReraiseExcept(AccessDenied)
                                ELSE 200)
    /\ task_docs' = IF task_docs[id] # None /\ ~NotOwner(task_docs[id], user_id)
                    THEN [ task_docs EXCEPT ![id] = None ]
                    ELSE task_docs
    /\ nops' = nops + 1
    /\ UNCHANGED <<allocVars, scoreVars, optVars>>

\* PATCH /tasks/{task_id}/status
UpdateTaskStatus(id, user_id, status) ==
    /\ nops < MaxRequests
    /\ \E says \in BOOLEAN :
          op_response' = Answer("update_task_status", id, user_id,
                                IF task_docs[id] = None THEN ReraiseExcept(DocumentMissing(says))
                                ELSE IF NotOwner(task_docs[id], user_id) THEN ReraiseExcept(AccessDenied)
                                ELSE 200)
    /\ task_docs' = IF task_docs[id] # None /\ ~NotOwner(task_docs[id], user_id)
                    THEN [ task_docs EXCEPT ![id] = ApplyStatus(@, status) ]
                    ELSE task_docs
    /\ nops' = nops + 1
    /\ UNCHANGED <<allocVars, scoreVars, optVars>>

OpsNext ==
    \/ \E id \in OpTaskIds : \E user_id \in Users : GetTask(id, user_id)
    \/ \E id \in OpTaskIds : \E user_id \in Users : \E upd \in TaskUpdates : UpdateTask(id, user_id, upd)
    \/ \E id \in OpTaskIds : \E user_id \in Users : DeleteTask(id, user_id)
    \/ \E id \in OpTaskIds : \E user_id \in Users : \E status \in Statuses : UpdateTaskStatus(id, user_id, status)

\* a sequence of task requests of the two users
SpecTaskOps == OpsInit /\ [][OpsNext]_vars

\* C30 (as claimed): for each of get_task, update_task, delete_task and
\* update_task_status, a request whose user id differs from the task's stored
\* user_id is answered with 403 and leaves the stored task unchanged.
C30_ForeignRequestDenied ==
    ( /\ op_response # None
      /\ op_response.before # None
      /\ op_response.before.user_id # op_response.user_id )
    => /\ op_response.status_code = 403
       /\ task_docs[op_response.task_id] = op_response.before

====
